---- MODULE Spec2Model ----
(***************************************************************************)
(* ZipArchiveWriter (src/zip/zip_archive_writer.ts): the streaming ZIP     *)
(* writer.  One writer instance is modelled: its fields dirs,              *)
(* centralDirHeaders, offset and listeners, and the sequence of events it  *)
(* has triggered, each with the callbacks it was handed to (events records *)
(* every call of trigger, also when no callback is registered).  Strings   *)
(* are sequences of UTF-16 code units, byte arrays are sequences of        *)
(* 0..255, and every record the writer builds is a TLA+ record that keeps  *)
(* the fields the encoders write and its byte length.                      *)
(* The date fields are left out: this.date is fixed at construction and    *)
(* takes no part in the offset, size and count bookkeeping.                *)
(*                                                                         *)
(* The pending list this.centralDirHeaders is centralDirHeaders, after a   *)
(* prefix that may be kept in short: elided.count headers of elided.size   *)
(* bytes in all, in front of those of centralDirHeaders.  A new writer has *)
(* nothing elided; a writer that holds tens of thousands of entries is     *)
(* modelled with them elided, and their events with them (ElidedChunk).    *)
(***************************************************************************)
EXTENDS Integers, Sequences, FiniteSets, TLC

VARIABLES dirs, centralDirHeaders, elided, offset, listeners, events, written,
          call, ncalls

vars == <<dirs, centralDirHeaders, elided, offset, listeners, events, written, call, ncalls>>

(***************************************************************************)
(* Bounds and inputs.                                                      *)
(***************************************************************************)
\* number of public calls made on the writer in one run
MaxOps == 3

SLASH == 47
UINT16 == 65536

\* writeDir is called with "a", "a/" and "e/b" (e-acute for e: a character
\* of two bytes)
DirPaths == { <<97>>, <<97, 47>>, <<233, 47, 98>> }

\* writeFile and write are called with "a/b.txt" and "e/b/c" (e-acute for e)
FilePaths == { <<97, 47, 98, 46, 116, 120, 116>>, <<233, 47, 98, 47, 99>> }

\* "" and "hi"
Buffers == { <<>>, <<104, 105>> }

\* level: <<>> is undefined, <<n>> is the number n
Levels == { <<>>, <<0>>, <<6>> }

\* what the compressor may deliver: the byte lengths of its chunks, in order
Chunkings == { <<>>, <<1, 2>> }

(***************************************************************************)
(* Collaborators from ../common, ../core and ../stream/core.               *)
(***************************************************************************)
RECURSIVE Concat(_)
Concat(ss) == IF ss = <<>> THEN <<>> ELSE Head(ss) \o Concat(Tail(ss))

\* UTF-8 bytes of one code unit (surrogate pairs are not modelled)
Utf8(cp) ==
  IF cp < 128 THEN <<cp>>
  ELSE IF cp < 2048 THEN <<192 + (cp \div 64), 128 + (cp % 64)>>
  ELSE <<224 + (cp \div 4096), 128 + ((cp \div 64) % 64), 128 + (cp % 64)>>

\* a string as its UTF-8 bytes
Utf8Encode(str) == Concat([i \in 1..Len(str) |-> Utf8(str[i])])

\* the strings the writer converts in a run: the paths, the directory paths
\* made of them and the buffers
RECURSIVE Prefixes(_)
Prefixes(str) ==
  IF str = <<>> THEN {<<>>} ELSE {str} \cup Prefixes(SubSeq(str, 1, Len(str) - 1))

Strings ==
  LET base == UNION {Prefixes(p) : p \in DirPaths \cup FilePaths}
  IN  base \cup {Append(p, SLASH) : p \in base} \cup Buffers

Utf8Table == [str \in Strings |-> Utf8Encode(str)]

toBytes(str) == IF str \in Strings THEN Utf8Table[str] ELSE Utf8Encode(str)

RECURSIVE Xor(_, _)
Xor(a, b) ==
  IF a = 0 THEN b
  ELSE IF b = 0 THEN a
  ELSE (((a % 2) + (b % 2)) % 2) + 2 * Xor(a \div 2, b \div 2)

\* CRC-32 (reflected polynomial 0xEDB88320) on a 32-bit register kept as two
\* 16-bit halves <<high, low>>
RECURSIVE CrcShift(_, _)
CrcShift(c, n) ==
  IF n = 0 THEN c
  ELSE LET hi == c[1] \div 2
           lo == (c[2] \div 2) + 32768 * (c[1] % 2)
       IN  CrcShift(IF c[2] % 2 = 1 THEN <<Xor(hi, 60856), Xor(lo, 33568)>>
                                    ELSE <<hi, lo>>, n - 1)

RECURSIVE CrcUpdate(_, _)
CrcUpdate(c, bytes) ==
  IF bytes = <<>> THEN c
  ELSE CrcUpdate(CrcShift(<<c[1], Xor(c[2], Head(bytes))>>, 8), Tail(bytes))

Crc32Of(bytes) ==
  LET c == CrcUpdate(<<65535, 65535>>, bytes)
  IN  <<Xor(c[1], 65535), Xor(c[2], 65535)>>

Crc32Table == [bytes \in {Utf8Encode(b) : b \in Buffers} |-> Crc32Of(bytes)]

crc32(bytes) ==
  IF bytes \in DOMAIN Crc32Table THEN Crc32Table[bytes] ELSE Crc32Of(bytes)

ZeroCrc == <<0, 0>>

(***************************************************************************)
(* Record encoders.                                                        *)
(***************************************************************************)
setUint16(n) == n % UINT16

\* a 32-bit field; every value of the model is below 2^31, where the
\* truncation to 32 bits changes nothing
setUint32(n) == n

\* a header whose buffer has no room for the name
createLocalFileHeader_NoRoomForName(fileName, isDeflated) ==
  [ kind     |-> "local",
    version  |-> setUint16(20),
    flags    |-> 2056,
    method   |-> setUint16(IF isDeflated THEN 8 ELSE 0),
    nameLen  |-> setUint16(Len(fileName)),
    fileName |-> fileName,
    length   |-> 30 ]

\* a header that does not look at isDeflated
createLocalFileHeader_AlwaysDeflated(fileName, isDeflated) ==
  [ kind     |-> "local",
    version  |-> setUint16(20),
    flags    |-> 2056,
    method   |-> setUint16(8),
    nameLen  |-> setUint16(Len(fileName)),
    fileName |-> fileName,
    length   |-> 30 + Len(fileName) ]

createLocalFileHeader(fileName, isDeflated) ==
  [ kind     |-> "local",
    version  |-> setUint16(20),
    flags    |-> 2056,
    method   |-> setUint16(IF isDeflated THEN 8 ELSE 0),
    nameLen  |-> setUint16(Len(fileName)),
    fileName |-> fileName,
    length   |-> 30 + Len(fileName) ]

\* a descriptor without its signature
createDataDescriptor_NoSignature(crc, compressedSize, uncompressedSize) ==
  [ kind             |-> "descriptor",
    crc32            |-> crc,
    compressedSize   |-> setUint32(compressedSize),
    uncompressedSize |-> setUint32(uncompressedSize),
    length           |-> 12 ]

createDataDescriptor(crc, compressedSize, uncompressedSize) ==
  [ kind             |-> "descriptor",
    crc32            |-> crc,
    compressedSize   |-> setUint32(compressedSize),
    uncompressedSize |-> setUint32(uncompressedSize),
    length           |-> 16 ]

\* the two sizes are written to each other's field
createCentralDirHeader_SizesSwapped(fileName, isDeflated, fileOffset, uncompressedSize, compressedSize, crc) ==
  [ kind             |-> "central",
    version          |-> setUint16(20),
    flags            |-> 2056,
    method           |-> setUint16(IF isDeflated THEN 8 ELSE 0),
    crc32            |-> crc,
    compressedSize   |-> setUint32(uncompressedSize),
    uncompressedSize |-> setUint32(compressedSize),
    nameLen          |-> setUint16(Len(fileName)),
    fileOffset       |-> setUint32(fileOffset),
    fileName         |-> fileName,
    length           |-> 46 + Len(fileName) ]

createCentralDirHeader(fileName, isDeflated, fileOffset, uncompressedSize, compressedSize, crc) ==
  [ kind             |-> "central",
    version          |-> setUint16(20),
    flags            |-> 2056,
    method           |-> setUint16(IF isDeflated THEN 8 ELSE 0),
    crc32            |-> crc,
    compressedSize   |-> setUint32(compressedSize),
    uncompressedSize |-> setUint32(uncompressedSize),
    nameLen          |-> setUint16(Len(fileName)),
    fileOffset       |-> setUint32(fileOffset),
    fileName         |-> fileName,
    length           |-> 46 + Len(fileName) ]

\* the second count is written from the wrong argument
createEndCentDirHeader_WrongTotal(numberOfCentralDirs, centralDirHeaderSize, centralDirStartOffset) ==
  [ kind                  |-> "end",
    entriesOnDisk         |-> setUint16(numberOfCentralDirs),
    entriesTotal          |-> setUint16(centralDirHeaderSize),
    centralDirHeaderSize  |-> setUint32(centralDirHeaderSize),
    centralDirStartOffset |-> setUint32(centralDirStartOffset),
    length                |-> 22 ]

createEndCentDirHeader(numberOfCentralDirs, centralDirHeaderSize, centralDirStartOffset) ==
  [ kind                  |-> "end",
    entriesOnDisk         |-> setUint16(numberOfCentralDirs),
    entriesTotal          |-> setUint16(numberOfCentralDirs),
    centralDirHeaderSize  |-> setUint32(centralDirHeaderSize),
    centralDirStartOffset |-> setUint32(centralDirStartOffset),
    length                |-> 22 ]

(***************************************************************************)
(* The writer.  An operation takes the writer (a record of its fields) and *)
(* returns the writer after the call.                                      *)
(***************************************************************************)
Null == [kind |-> "null"]

\* the stored content of a file, as handed to trigger
RawChunk(bytes) == [kind |-> "content", bytes |-> bytes, length |-> Len(bytes)]

\* one chunk delivered by the compressor
DeflatedChunk(n) == [kind |-> "deflated", length |-> n]

\* count consecutive chunks, of length bytes in all, kept as one
ElidedChunk(count, length) == [kind |-> "elided", count |-> count, length |-> length]

NoneElided == [count |-> 0, size |-> 0]

\* this.listeners = {}: no callback is registered for any name
NoListeners == [data |-> <<>>, end |-> <<>>]

NewWriter ==
  [ dirs |-> {}, centralDirHeaders |-> <<>>, elided |-> NoneElided, offset |-> 0,
    listeners |-> NoListeners, events |-> <<>>, written |-> <<>> ]

\* this.centralDirHeaders.length
PendingLength(self) == self.elided.count + Len(self.centralDirHeaders)

\* on(name, callback): the callback is pushed on the list of its name
on(self, name, callback) ==
  [self EXCEPT !.listeners[name] = Append(@, callback)]

\* only the first callback of the list is called
Invoked_FirstOnly(self, name) ==
  IF self.listeners[name] = <<>> THEN <<>> ELSE <<Head(self.listeners[name])>>

\* this.listeners[name].forEach(listner => listner(data)): the callbacks that
\* one call of trigger calls, in the order of the calls; none when no
\* callback is registered for the name
Invoked(self, name) == self.listeners[name]

\* one call of trigger: the name, the data, and the callbacks called with it
Fired(self, name, data) == [name |-> name, data |-> data, to |-> Invoked(self, name)]

trigger(self, name, data) ==
  [self EXCEPT !.events = Append(@, Fired(self, name, data))]

\* level is truthy: a number other than 0
Truthy(level) == level # <<>> /\ level[1] # 0

\* /.+\/$/.test(path): a '/' at the end, after at least one character that
\* is not a line terminator
LineTerminators == {10, 13, 8232, 8233}

EndsWithSlash(path) ==
  /\ Len(path) >= 2
  /\ path[Len(path)] = SLASH
  /\ path[Len(path) - 1] \notin LineTerminators

NormalizeDir(path) == IF EndsWithSlash(path) THEN path ELSE Append(path, SLASH)

\* writeDir without the test of this.dirs: every call emits
writeDir_NoDedup(self, path0) ==
  LET path            == NormalizeDir(path0)
      pathAsBytes     == toBytes(path)
      localFileHeader == createLocalFileHeader(pathAsBytes, FALSE)
      s1 == [self EXCEPT
               !.dirs = @ \cup {path},
               !.centralDirHeaders =
                  Append(@, createCentralDirHeader(pathAsBytes, FALSE,
                                                   self.offset, 0, 0, ZeroCrc)),
               !.written = Append(@, [op |-> "writeDir", path |-> path,
                                      buffer |-> <<>>, deflated |-> FALSE,
                                      at |-> Len(self.events) + 1])]
      s2 == trigger(s1, "data", localFileHeader)
  IN  [s2 EXCEPT !.offset = @ + localFileHeader.length]

\* writeDir without this.dirs[path] = true
writeDir_NotRemembered(self, path0) ==
  LET path == NormalizeDir(path0) IN
  IF path \in self.dirs THEN self
  ELSE
    LET pathAsBytes     == toBytes(path)
        localFileHeader == createLocalFileHeader(pathAsBytes, FALSE)
        s1 == [self EXCEPT
                 !.centralDirHeaders =
                    Append(@, createCentralDirHeader(pathAsBytes, FALSE,
                                                     self.offset, 0, 0, ZeroCrc)),
                 !.written = Append(@, [op |-> "writeDir", path |-> path,
                                        buffer |-> <<>>, deflated |-> FALSE,
                                        at |-> Len(self.events) + 1])]
        s2 == trigger(s1, "data", localFileHeader)
    IN  [s2 EXCEPT !.offset = @ + localFileHeader.length]

\* written is history: for each entry, the call that wrote it and the place
\* of its local header in events
writeDir(self, path0) ==
  LET path == NormalizeDir(path0) IN
  IF path \in self.dirs THEN self
  ELSE
    LET pathAsBytes     == toBytes(path)
        localFileHeader == createLocalFileHeader(pathAsBytes, FALSE)
        s1 == [self EXCEPT
                 !.dirs = @ \cup {path},
                 !.centralDirHeaders =
                    Append(@, createCentralDirHeader(pathAsBytes, FALSE,
                                                     self.offset, 0, 0, ZeroCrc)),
                 !.written = Append(@, [op |-> "writeDir", path |-> path,
                                        buffer |-> <<>>, deflated |-> FALSE,
                                        at |-> Len(self.events) + 1])]
        s2 == trigger(s1, "data", localFileHeader)
    IN  [s2 EXCEPT !.offset = @ + localFileHeader.length]

\* streamFn with compressedSize = chunk.length in place of +=
RECURSIVE deflate_SizeOfLastChunk(_, _)
deflate_SizeOfLastChunk(acc, chunks) ==
  IF chunks = <<>> THEN acc
  ELSE deflate_SizeOfLastChunk(
         [ self           |-> trigger(acc.self, "data", DeflatedChunk(Head(chunks))),
           compressedSize |-> Head(chunks) ],
         Tail(chunks))

\* deflate(...): the compressor calls streamFn once per chunk, in order
RECURSIVE deflate(_, _)
deflate(acc, chunks) ==
  IF chunks = <<>> THEN acc
  ELSE deflate([ self           |-> trigger(acc.self, "data", DeflatedChunk(Head(chunks))),
                 compressedSize |-> acc.compressedSize + Head(chunks) ],
               Tail(chunks))

\* the stored branch without its assignment to compressedSize
emitContent_SizeNotSet(self, bytes, level, chunks) ==
  IF Truthy(level)
  THEN deflate([self |-> self, compressedSize |-> 0], chunks)
  ELSE [ self           |-> trigger(self, "data", RawChunk(bytes)),
         compressedSize |-> 0 ]

\* the content of a file: the compressor's chunks, or the bytes as they are
emitContent(self, bytes, level, chunks) ==
  IF Truthy(level)
  THEN deflate([self |-> self, compressedSize |-> 0], chunks)
  ELSE [ self           |-> trigger(self, "data", RawChunk(bytes)),
         compressedSize |-> Len(bytes) ]

writeFile(self, path, buffer, level, chunks) ==
  LET pathAsBytes     == toBytes(path)
      offset0         == self.offset
      localFileHeader == createLocalFileHeader(pathAsBytes, Truthy(level))
      bytes           == toBytes(buffer)
      s1 == trigger(self, "data", localFileHeader)
      c  == emitContent(s1, bytes, level, chunks)
      crc            == crc32(bytes)
      dataDescriptor == createDataDescriptor(crc, c.compressedSize, Len(bytes))
      s3 == trigger(c.self, "data", dataDescriptor)
  IN  [s3 EXCEPT
         !.centralDirHeaders =
            Append(@, createCentralDirHeader(pathAsBytes, Truthy(level), offset0,
                                             Len(bytes), c.compressedSize, crc)),
         !.written = Append(@, [op |-> "writeFile", path |-> path,
                                buffer |-> buffer, deflated |-> Truthy(level),
                                at |-> Len(self.events) + 1]),
         !.offset = @ + localFileHeader.length + c.compressedSize
                      + dataDescriptor.length]

\* a writeFile that counts the local header in this.offset as soon as it is
\* emitted
writeFileThrows_OffsetMovedFirst(self, path, buffer, level, chunks) ==
  LET localFileHeader == createLocalFileHeader(toBytes(path), Truthy(level))
      s1 == trigger(self, "data", localFileHeader)
      c  == emitContent(s1, toBytes(buffer), level, chunks)
  IN  [c.self EXCEPT !.offset = @ + localFileHeader.length]

\* writeFile when deflate throws after it has delivered chunks, or when
\* crc32 throws: the exception leaves writeFile at that line, after the
\* local header and the content emitted so far, and nothing catches it
writeFileThrows(self, path, buffer, level, chunks) ==
  LET localFileHeader == createLocalFileHeader(toBytes(path), Truthy(level))
      s1 == trigger(self, "data", localFileHeader)
      c  == emitContent(s1, toBytes(buffer), level, chunks)
  IN  c.self

\* String.prototype.split('/')
RECURSIVE Split(_, _)
Split(str, cur) ==
  IF str = <<>> THEN <<cur>>
  ELSE IF Head(str) = SLASH THEN <<cur>> \o Split(Tail(str), <<>>)
  ELSE Split(Tail(str), Append(cur, Head(str)))

\* a reduce whose callback runs for the last segment too: the path of the
\* file is written as a directory as well
RECURSIVE ReduceDirs_LastSegmentToo(_, _, _)
ReduceDirs_LastSegmentToo(self, parent, rest) ==
  IF rest = <<>> THEN writeDir(self, Append(parent, SLASH))
  ELSE ReduceDirs_LastSegmentToo(writeDir(self, Append(parent, SLASH)),
                                 parent \o <<SLASH>> \o Head(rest), Tail(rest))

\* a reduce whose callback returns the parent it was given
RECURSIVE ReduceDirs_KeepsParent(_, _, _)
ReduceDirs_KeepsParent(self, parent, rest) ==
  IF rest = <<>> THEN self
  ELSE ReduceDirs_KeepsParent(writeDir(self, Append(parent, SLASH)),
                              parent, Tail(rest))

\* Array.prototype.reduce without an initial value, as write uses it: the
\* accumulator starts as the first segment and the callback runs for the others
RECURSIVE ReduceDirs(_, _, _)
ReduceDirs(self, parent, rest) ==
  IF rest = <<>> THEN self
  ELSE ReduceDirs(writeDir(self, Append(parent, SLASH)),
                  parent \o <<SLASH>> \o Head(rest), Tail(rest))

write(self, path, buffer, level, chunks) ==
  LET parts == Split(path, <<>>)
  IN  writeFile(ReduceDirs(self, Head(parts), Tail(parts)),
                path, buffer, level, chunks)

\* the sum of the lengths of headers
RECURSIVE LengthOf(_)
LengthOf(headers) ==
  IF headers = <<>> THEN 0 ELSE Head(headers).length + LengthOf(Tail(headers))

\* the events of the elided headers, in short
ElidedHeaderEvents(self) ==
  IF self.elided.count = 0 THEN <<>>
  ELSE <<Fired(self, "data", ElidedChunk(self.elided.count, self.elided.size))>>

\* the headers are emitted last one first
EmitHeaders_Reversed(self, headers) ==
  [ self |-> [self EXCEPT !.events =
                @ \o ElidedHeaderEvents(self)
                  \o [i \in 1..Len(headers) |->
                        Fired(self, "data", headers[Len(headers) + 1 - i])]],
    centralDirHeaderSize |-> self.elided.size + LengthOf(headers) ]

\* the headers are emitted and their lengths are not added up
EmitHeaders_NoSize(self, headers) ==
  [ self |-> [self EXCEPT !.events =
                @ \o ElidedHeaderEvents(self)
                  \o [i \in 1..Len(headers) |-> Fired(self, "data", headers[i])]],
    centralDirHeaderSize |-> 0 ]

\* this.centralDirHeaders.forEach(...): each header is handed to trigger, in
\* the order of the list, and its length is added to centralDirHeaderSize
EmitHeaders(self, headers) ==
  [ self |-> [self EXCEPT !.events =
                @ \o ElidedHeaderEvents(self)
                  \o [i \in 1..Len(headers) |-> Fired(self, "data", headers[i])]],
    centralDirHeaderSize |-> self.elided.size + LengthOf(headers) ]

\* writeEnd that moves this.offset past what it emits
writeEnd_AdvancesOffset(self) ==
  LET e  == EmitHeaders(self, self.centralDirHeaders)
      s1 == trigger(e.self, "data",
                    createEndCentDirHeader(PendingLength(self),
                                           e.centralDirHeaderSize, self.offset))
      s2 == trigger(s1, "end", Null)
  IN  [s2 EXCEPT !.offset = @ + e.centralDirHeaderSize + 22]

\* writeEnd that empties the pending list once it has emitted it
writeEnd_ClearsList(self) ==
  LET e  == EmitHeaders(self, self.centralDirHeaders)
      s1 == trigger(e.self, "data",
                    createEndCentDirHeader(PendingLength(self),
                                           e.centralDirHeaderSize, self.offset))
      s2 == trigger(s1, "end", Null)
  IN  [s2 EXCEPT !.centralDirHeaders = <<>>]

writeEnd(self) ==
  LET e  == EmitHeaders(self, self.centralDirHeaders)
      s1 == trigger(e.self, "data",
                    createEndCentDirHeader(PendingLength(self),
                                           e.centralDirHeaderSize, self.offset))
  IN  trigger(s1, "end", Null)

(***************************************************************************)
(* The state machine: one action per public method.                        *)
(***************************************************************************)
This ==
  [ dirs |-> dirs, centralDirHeaders |-> centralDirHeaders, elided |-> elided,
    offset |-> offset, listeners |-> listeners, events |-> events,
    written |-> written ]

\* the public method called last, its path, and whether it threw
Called(op, path) == [op |-> op, path |-> path, threw |-> FALSE]

\* the fields of the writer after a call
Fields(self) ==
  /\ dirs' = self.dirs
  /\ centralDirHeaders' = self.centralDirHeaders
  /\ elided' = self.elided
  /\ offset' = self.offset
  /\ listeners' = self.listeners
  /\ events' = self.events
  /\ written' = self.written

\* a call that returns; ncalls counts the calls
Becomes(self, op, path) ==
  /\ Fields(self)
  /\ call' = Called(op, path)
  /\ ncalls' = ncalls + 1

Init ==
  /\ dirs = {}
  /\ centralDirHeaders = <<>>
  /\ elided = NoneElided
  /\ offset = 0
  /\ listeners = NoListeners
  /\ events = <<>>
  /\ written = <<>>
  /\ call = Called("new", <<>>)
  /\ ncalls = 0

WriteDir(path) ==
  /\ ncalls < MaxOps
  /\ Becomes(writeDir(This, path), "writeDir", path)

WriteFile(path, buffer, level, chunks) ==
  /\ ncalls < MaxOps
  /\ Becomes(writeFile(This, path, buffer, level, chunks), "writeFile", path)

Write(path, buffer, level, chunks) ==
  /\ ncalls < MaxOps
  /\ Becomes(write(This, path, buffer, level, chunks), "write", path)

WriteEnd ==
  /\ ncalls < MaxOps
  /\ Becomes(writeEnd(This), "writeEnd", <<>>)

DoWriteDir == \E path \in DirPaths : WriteDir(path)

\* the compressor runs for a truthy level only: otherwise it delivers nothing
Deliveries(level) == IF Truthy(level) THEN Chunkings ELSE {<<>>}

DoWriteFile ==
  \E path \in FilePaths, buffer \in Buffers, level \in Levels :
    \E chunks \in Deliveries(level) : WriteFile(path, buffer, level, chunks)

DoWrite ==
  \E path \in FilePaths, buffer \in Buffers, level \in Levels :
    \E chunks \in Deliveries(level) : Write(path, buffer, level, chunks)

Next == DoWriteDir \/ DoWriteFile \/ DoWrite \/ WriteEnd

Spec == Init /\ [][Next]_vars

(***************************************************************************)
(* The writer with its listeners: on is called too, with the names of the  *)
(* two events and two callbacks f and g, any of them any number of times.  *)
(***************************************************************************)
Names == {"data", "end"}

Callbacks == {"f", "g"}

On(name, callback) ==
  /\ ncalls < MaxOps
  /\ Becomes(on(This, name, callback), "on", <<>>)

DoOn == \E name \in Names, callback \in Callbacks : On(name, callback)

NextObs == DoOn \/ DoWriteDir \/ DoWriteFile \/ DoWrite \/ WriteEnd

SpecObs == Init /\ [][NextObs]_vars

(***************************************************************************)
(* The writer with paths of every shape handed to write: "c", "a/c",       *)
(* "a/b/c", "/a", "a//c" and "//a".                                        *)
(***************************************************************************)
WritePaths ==
  { <<99>>, <<97, 47, 99>>, <<97, 47, 98, 47, 99>>, <<47, 97>>,
    <<97, 47, 47, 99>>, <<47, 47, 97>> }

DoWritePath == \E path \in WritePaths : Write(path, <<104, 105>>, <<>>, <<>>)

NextPaths == DoWriteDir \/ DoWritePath

SpecPaths == Init /\ [][NextPaths]_vars

(***************************************************************************)
(* The writer with collaborators that may throw: writeFile("a/b.txt",      *)
(* "hi", level) in which the compressor throws, at once or after a first   *)
(* chunk, or in which crc32 throws, after the whole content.               *)
(***************************************************************************)
\* what the compressor has delivered when the exception leaves writeFile:
\* part or all of a delivery
Partial(level) ==
  UNION {{SubSeq(chunks, 1, n) : n \in 0..Len(chunks)} : chunks \in Deliveries(level)}

WriteFileThrows(path, buffer, level, chunks) ==
  /\ ncalls < MaxOps
  /\ Fields(writeFileThrows(This, path, buffer, level, chunks))
  /\ call' = [op |-> "writeFile", path |-> path, threw |-> TRUE]
  /\ ncalls' = ncalls + 1

DoWriteFileThrows ==
  \E level \in Levels : \E chunks \in Partial(level) :
    WriteFileThrows(<<97, 47, 98, 46, 116, 120, 116>>, <<104, 105>>, level, chunks)

NextFail == DoWriteDir \/ DoWriteFile \/ DoWrite \/ WriteEnd \/ DoWriteFileThrows

SpecFail == Init /\ [][NextFail]_vars

(***************************************************************************)
(* A writer that already holds many entries: the writer after k calls      *)
(* writeFile("a", "", undefined) on a new writer, with these k entries     *)
(* elided.  Each call emits the chunks of OneFile, appends a header as     *)
(* long as that of OneFile and moves the offset as OneFile does.           *)
(***************************************************************************)
WidePath == <<97>>

\* the new writer after one such call
OneFile == writeFile(NewWriter, WidePath, <<>>, <<>>, <<>>)

ManyFiles(k) ==
  [ dirs              |-> {},
    centralDirHeaders |-> <<>>,
    elided            |-> [count |-> k,
                           size  |-> k * OneFile.centralDirHeaders[1].length],
    offset            |-> k * OneFile.offset,
    listeners         |-> NoListeners,
    events            |-> IF k = 0 THEN <<>>
                          ELSE <<Fired(NewWriter, "data",
                                       ElidedChunk(k * Len(OneFile.events),
                                                   k * OneFile.offset))>>,
    written           |-> <<>> ]

\* the same calls made one after the other on self
RECURSIVE Repeated(_, _)
Repeated(self, k) ==
  IF k = 0 THEN self
  ELSE IF k = 1 THEN writeFile(self, WidePath, <<>>, <<>>, <<>>)
  ELSE Repeated(Repeated(self, k \div 2), k - (k \div 2))

\* a writer with all its entries, their events and their history elided
Elide(self) ==
  [ dirs              |-> self.dirs,
    centralDirHeaders |-> <<>>,
    elided            |-> [count |-> PendingLength(self),
                           size  |-> self.elided.size + LengthOf(self.centralDirHeaders)],
    offset            |-> self.offset,
    listeners         |-> self.listeners,
    events            |-> IF self.events = <<>> THEN <<>>
                          ELSE <<Fired(self, "data",
                                       ElidedChunk(Len(self.events), self.offset))>>,
    written           |-> <<>> ]

\* the numbers of entries the writer starts with: none, a few, the most that
\* the 16-bit count fields of the end record hold, and one more
WideCounts == {0, 1, 2, UINT16 - 1, UINT16}

\* two more calls are made on each of these writers
InitWide ==
  \E k \in WideCounts :
    LET w == ManyFiles(k) IN
    /\ dirs = w.dirs
    /\ centralDirHeaders = w.centralDirHeaders
    /\ elided = w.elided
    /\ offset = w.offset
    /\ listeners = w.listeners
    /\ events = w.events
    /\ written = w.written
    /\ call = IF k = 0 THEN Called("new", <<>>) ELSE Called("writeFile", WidePath)
    /\ ncalls = MaxOps - 2

SpecWide == InitWide /\ [][Next]_vars

(***************************************************************************)
(* What the stream holds.                                                  *)
(***************************************************************************)
IsData(i) == events[i].name = "data"

IsKind(i, kind) == IsData(i) /\ events[i].data.kind = kind

\* the bytes of events[1..n]
RECURSIVE BytesUpTo(_)
BytesUpTo(n) ==
  IF n = 0 THEN 0
  ELSE (IF IsData(n) THEN events[n].data.length ELSE 0) + BytesUpTo(n - 1)

EmittedBytes == BytesUpTo(Len(events))

\* the bytes of the entries in events[1..n]: local headers, content, descriptors
RECURSIVE EntryBytesUpTo(_)
EntryBytesUpTo(n) ==
  IF n = 0 THEN 0
  ELSE (IF IsData(n) /\ events[n].data.kind \notin {"central", "end"}
        THEN events[n].data.length ELSE 0) + EntryBytesUpTo(n - 1)

EndEvents == {i \in 1..Len(events) : events[i].name = "end"}

Ended == EndEvents # {}

\* writeEnd has been called once and nothing was called after it
JustEndedOnce ==
  /\ Cardinality(EndEvents) = 1
  /\ events[Len(events)].name = "end"

\* the end record of the last writeEnd, when writeEnd was called last
EndRecord == events[Len(events) - 1].data

C2_StreamLengthMatchesEndRecord ==
  JustEndedOnce =>
    EmittedBytes =
      EndRecord.centralDirStartOffset + EndRecord.centralDirHeaderSize + 22

C2_Witness ==
  /\ JustEndedOnce
  /\ Len(centralDirHeaders) >= 2
  /\ \E i \in 1..Len(events) : IsKind(i, "deflated")
  /\ EndRecord.centralDirHeaderSize > 0

(***************************************************************************)
(* C3                                                                      *)
(***************************************************************************)
\* C3: for every entry, the local header offset of its central directory
\* record is the number of bytes emitted before the first byte of its local
\* header.
C3_RecordOffsetIsBytesBeforeHeader ==
  \A i \in 1..Len(centralDirHeaders) :
    /\ IsKind(written[i].at, "local")
    /\ centralDirHeaders[i].fileOffset = BytesUpTo(written[i].at - 1)

(***************************************************************************)
(* C4                                                                      *)
(***************************************************************************)
\* C4: once writeEnd has been called, a call of writeDir, writeFile or write
\* emits nothing, appends no central directory record and leaves the running
\* offset as it is.
C4_NoWriteAfterEnd ==
  [][(Ended /\ call'.op \in {"writeDir", "writeFile", "write"})
       => UNCHANGED <<events, centralDirHeaders, offset>>]_vars

(***************************************************************************)
(* C5                                                                      *)
(***************************************************************************)
\* the entries that writeDir wrote for the directory path d
DirEntries(d) ==
  {i \in 1..Len(written) : written[i].op = "writeDir" /\ written[i].path = d}

\* the local headers of the stream that a writeDir call emitted
DirHeaders ==
  {i \in 1..Len(events) :
     \E k \in 1..Len(written) : written[k].op = "writeDir" /\ written[k].at = i}

\* C5, in every state: each path of the directory set has one local header
\* and one central directory record from writeDir, whatever the number of
\* writeDir calls that named it, and writeDir emitted nothing else.
C5_OneEntryPerDirectory ==
  /\ \A d \in dirs :
       /\ Cardinality(DirEntries(d)) = 1
       /\ \A i \in DirEntries(d) :
            /\ IsKind(written[i].at, "local")
            /\ events[written[i].at].data.fileName = toBytes(d)
            /\ centralDirHeaders[i].fileName = toBytes(d)
  /\ Cardinality(DirHeaders) = Cardinality(dirs)
  /\ \A i \in 1..Len(written) : written[i].op = "writeDir" => written[i].path \in dirs

\* C5, in every step: a writeDir call whose normalized path is in the
\* directory set changes nothing, and one whose normalized path is not in it
\* emits one chunk, appends one record and adds the path to the set.
C5_WriteDirStep ==
  call'.op = "writeDir" =>
    IF NormalizeDir(call'.path) \in dirs
    THEN UNCHANGED <<dirs, centralDirHeaders, offset, events, written>>
    ELSE /\ dirs' = dirs \cup {NormalizeDir(call'.path)}
         /\ Len(events') = Len(events) + 1
         /\ Len(centralDirHeaders') = Len(centralDirHeaders) + 1

\* C5: writeDir is idempotent per normalized path.
C5_WriteDirIdempotent == []C5_OneEntryPerDirectory /\ [][C5_WriteDirStep]_vars

\* "a" and "a/" were both handed to writeDir, with another entry in between
C5_Witness ==
  /\ ncalls = 3
  /\ call = Called("writeDir", <<97, 47>>)
  /\ Len(written) = 2
  /\ written[1] = [op |-> "writeDir", path |-> <<97, 47>>, buffer |-> <<>>,
                   deflated |-> FALSE, at |-> 1]
  /\ written[2].op = "writeFile"

(***************************************************************************)
(* C6                                                                      *)
(***************************************************************************)
ABTxt == <<97, 47, 98, 46, 116, 120, 116>>   \* "a/b.txt"
ADir == <<97, 47>>                           \* "a/"
Hi == <<104, 105>>                           \* "hi"

\* a fresh writer after writeFile("a/b.txt", "hi", 0) and writeEnd()
AfterWriteFileABTxt == writeEnd(writeFile(NewWriter, ABTxt, Hi, <<0>>, <<>>))

\* a fresh writer after write("a/b.txt", "hi", 0) and writeEnd()
AfterWriteABTxt == writeEnd(write(NewWriter, ABTxt, Hi, <<0>>, <<>>))

\* the directory a/ and the file a/b.txt, two records, both counts 2
OneDirectoryOneFile ==
  /\ Len(centralDirHeaders) = 2
  /\ centralDirHeaders[1].fileName = toBytes(ADir)
  /\ written[1].op = "writeDir"
  /\ centralDirHeaders[2].fileName = toBytes(ABTxt)
  /\ written[2].op = "writeFile"
  /\ Cardinality({i \in 1..Len(events) : IsKind(i, "central")}) = 2
  /\ EndRecord.entriesOnDisk = 2
  /\ EndRecord.entriesTotal = 2

\* C6 as stated: writeFile("a/b.txt", "hi", 0) and finish on a fresh writer
\* give the directory entry a/ and the file entry a/b.txt.
C6_WriteFileAddsDirectories ==
  (ncalls = 2 /\ call.op = "writeEnd" /\ This = AfterWriteFileABTxt)
    => OneDirectoryOneFile

\* the directory paths in front of the last segment of path, that write hands
\* to writeDir
IntermediateDirs(path) ==
  {NormalizeDir(SubSeq(path, 1, i)) : i \in {j \in 1..Len(path) : path[j] = SLASH}}

\* C6 amended, the scenario: write("a/b.txt", "hi", 0) and finish on a fresh
\* writer give the directory entry a/ and the file entry a/b.txt.
C6_Scenario ==
  (ncalls = 2 /\ call.op = "writeEnd" /\ This = AfterWriteABTxt)
    => OneDirectoryOneFile

\* C6 amended, in general: a write call appends one record for each
\* intermediate directory that is not in the directory set, and one record
\* for the file, which comes last; a writeFile call appends the file record
\* alone.
C6_WriteStep ==
  /\ call'.op = "write" =>
       LET missing == IntermediateDirs(call'.path) \ dirs
           n       == Len(centralDirHeaders) + Cardinality(missing) + 1
       IN  /\ Len(centralDirHeaders') = n
           /\ dirs' = dirs \cup missing
           /\ written'[n].op = "writeFile"
           /\ centralDirHeaders'[n].fileName = toBytes(call'.path)
           /\ \A i \in (Len(centralDirHeaders) + 1)..(n - 1) :
                /\ written'[i].op = "writeDir"
                /\ written'[i].path \in missing
                /\ centralDirHeaders'[i].fileName = toBytes(written'[i].path)
  /\ call'.op = "writeFile" =>
       /\ Len(centralDirHeaders') = Len(centralDirHeaders) + 1
       /\ dirs' = dirs

\* C6 amended: it is write, not writeFile, that adds the directories.
C6_WriteAddsDirectories == []C6_Scenario /\ [][C6_WriteStep]_vars

C6_Witness == ncalls = 2 /\ call.op = "writeEnd" /\ This = AfterWriteABTxt

(***************************************************************************)
(* C7                                                                      *)
(***************************************************************************)
\* C7 as stated: after writeEnd, both entry counts of the end record are the
\* length of the pending list, whatever that length.
C7_CountsAreListLength ==
  call.op = "writeEnd" =>
    /\ EndRecord.entriesOnDisk = PendingLength(This)
    /\ EndRecord.entriesTotal = PendingLength(This)

\* C7 amended: after writeEnd, both entry counts of the end record are the
\* length of the pending list modulo 65536: the length itself when it is at
\* most 65535, and its low 16 bits beyond.
C7_CountsAreListLengthMod65536 ==
  call.op = "writeEnd" =>
    /\ EndRecord.kind = "end"
    /\ EndRecord.entriesOnDisk = PendingLength(This) % 65536
    /\ EndRecord.entriesTotal = PendingLength(This) % 65536
    /\ PendingLength(This) <= 65535 =>
         /\ EndRecord.entriesOnDisk = PendingLength(This)
         /\ EndRecord.entriesTotal = PendingLength(This)

\* writeEnd on a list of 65537 entries, the last of them a file in a
\* directory: the counts are 1
C7_Witness ==
  /\ call.op = "writeEnd"
  /\ PendingLength(This) = 65537
  /\ Len(centralDirHeaders) = 2
  /\ EndRecord.entriesOnDisk = 1
  /\ EndRecord.entriesTotal = 1

(***************************************************************************)
(* C8                                                                      *)
(***************************************************************************)
\* the places in events of the local headers, in the order of the stream
LocalHeaders ==
  SelectSeq([i \in 1..Len(events) |-> i], LAMBDA i : IsKind(i, "local"))

\* the place in events of the i-th central directory record of the last
\* writeEnd, which emitted n of them, the end record and the end event
CentralAt(i, n) == Len(events) - 2 - n + i

\* C8: when writeEnd has run once, after any writes, it has emitted one
\* central directory record for each local header of the stream, the i-th
\* record naming the i-th local header and giving the place of its first
\* byte, and the end record comes after all of them.
C8_DirectoryInStreamOrder ==
  JustEndedOnce =>
    LET n == Len(centralDirHeaders) IN
    /\ Len(LocalHeaders) = n
    /\ IsKind(Len(events) - 1, "end")
    /\ {i \in 1..Len(events) : IsKind(i, "central")}
         = {CentralAt(i, n) : i \in 1..n}
    /\ \A i \in 1..n :
         LET record == events[CentralAt(i, n)].data
             header == LocalHeaders[i]
         IN  /\ record = centralDirHeaders[i]
             /\ record.fileName = events[header].data.fileName
             /\ record.fileOffset = BytesUpTo(header - 1)

\* two entries of different names, and more, went through writeEnd
C8_Witness ==
  /\ JustEndedOnce
  /\ Len(centralDirHeaders) >= 3
  /\ centralDirHeaders[1].fileName # centralDirHeaders[2].fileName
  /\ centralDirHeaders[2].fileName # centralDirHeaders[3].fileName

(***************************************************************************)
(* C9                                                                      *)
(***************************************************************************)
\* the entries written by writeFile with a level that is 0 or undefined
StoredFiles ==
  {i \in 1..Len(written) : written[i].op = "writeFile" /\ ~written[i].deflated}

\* C9: for every stored file, the chunk after its local header is the input
\* bytes, whole and as they are, the chunk after that is its descriptor, and
\* the compressedSize of the descriptor and of the central directory record
\* is the rawSize, the number of input bytes.
C9_StoredFileIsUnmodified ==
  \A i \in StoredFiles :
    LET at    == written[i].at
        bytes == toBytes(written[i].buffer)
    IN  /\ IsKind(at, "local")
        /\ IsKind(at + 1, "content")
        /\ events[at + 1].data.bytes = bytes
        /\ events[at + 1].data.length = Len(bytes)
        /\ IsKind(at + 2, "descriptor")
        /\ events[at + 2].data.uncompressedSize = Len(bytes)
        /\ events[at + 2].data.compressedSize = Len(bytes)
        /\ centralDirHeaders[i].uncompressedSize = Len(bytes)
        /\ centralDirHeaders[i].compressedSize = Len(bytes)

C9_Witness ==
  \E i \in StoredFiles :
    /\ written[i].buffer = <<104, 105>>
    /\ centralDirHeaders[i].compressedSize = 2
    /\ \E j \in StoredFiles : written[j].buffer = <<>>

(***************************************************************************)
(* C10                                                                     *)
(***************************************************************************)
\* the pairs of files of the same content and of different names, the first
\* written before the second
TwinFiles ==
  {p \in (1..Len(written)) \X (1..Len(written)) :
     /\ p[1] < p[2]
     /\ written[p[1]].op = "writeFile"
     /\ written[p[2]].op = "writeFile"
     /\ written[p[1]].buffer = written[p[2]].buffer
     /\ written[p[1]].path # written[p[2]].path}

\* C10: the central directory records of two such files carry the same
\* checksum and the same rawSize, and the local offset of the later one is
\* greater than that of the earlier one.
C10_TwinFilesDifferInOffsetOnly ==
  \A p \in TwinFiles :
    /\ centralDirHeaders[p[1]].crc32 = centralDirHeaders[p[2]].crc32
    /\ centralDirHeaders[p[1]].uncompressedSize = centralDirHeaders[p[2]].uncompressedSize
    /\ centralDirHeaders[p[1]].fileOffset < centralDirHeaders[p[2]].fileOffset

\* two files "hi", one stored and one deflated, with an entry in between
C10_Witness ==
  \E p \in TwinFiles :
    /\ p[2] > p[1] + 1
    /\ written[p[1]].buffer = <<104, 105>>
    /\ written[p[1]].deflated # written[p[2]].deflated
    /\ centralDirHeaders[p[1]].crc32 = crc32(<<104, 105>>)

(***************************************************************************)
(* C11                                                                     *)
(***************************************************************************)
\* s is the beginning of t
IsPrefix(s, t) == Len(s) <= Len(t) /\ SubSeq(t, 1, Len(s)) = s

\* the chunks of the 'data' events, in the order of the stream
DataChunks ==
  LET fired == SelectSeq(events, LAMBDA e : e.name = "data")
  IN  [i \in 1..Len(fired) |-> fired[i].data]

\* the chunks that the k-th callback registered for 'data' was called with
Received(k) ==
  LET got == SelectSeq(events, LAMBDA e : /\ e.name = "data"
                                           /\ Len(e.to) >= k
                                           /\ e.to[k] = listeners.data[k])
  IN  [i \in 1..Len(got) |-> got[i].data]

\* the k-th callback of 'data' was registered before the first 'data' event
BeforeFirstData(k) ==
  \A i \in 1..Len(events) : events[i].name = "data" => Len(events[i].to) >= k

\* C11, in every state: the callbacks called for an event are those that
\* were registered for it at that time, so the lists of two events of one
\* name begin alike and begin the list of that name; and a callback
\* registered for 'data' before the first 'data' event has received every
\* chunk of the stream, in the order of the stream.
C11_ObserversSeeTheStream ==
  /\ \A i \in 1..Len(events) :
       /\ IsPrefix(events[i].to, listeners[events[i].name])
       /\ \A j \in 1..i : events[j].name = events[i].name
                            => IsPrefix(events[j].to, events[i].to)
  /\ \A k \in 1..Len(listeners.data) :
       BeforeFirstData(k) => Received(k) = DataChunks

\* C11, in every step: each event that fires calls every callback registered
\* for its name so far, once for each registration and in the order of the
\* registrations, and firing events registers nothing; on fires no event and
\* puts its callback last.
C11_FiringStep ==
  /\ \A i \in (Len(events) + 1)..Len(events') :
       events'[i].to = listeners[events'[i].name]
  /\ IF call'.op = "on"
     THEN /\ events' = events
          /\ \E name \in Names, callback \in Callbacks :
               listeners' = [listeners EXCEPT ![name] = Append(@, callback)]
     ELSE listeners' = listeners

C11_ObserversInvokedInOrder ==
  []C11_ObserversSeeTheStream /\ [][C11_FiringStep]_vars

\* g then f registered for 'data', and a write that fires five events
C11_Witness ==
  /\ listeners.data = <<"g", "f">>
  /\ Len(events) = 5
  /\ \A i \in 1..5 : events[i].to = <<"g", "f">>
  /\ Received(1) = DataChunks
  /\ Received(2) = DataChunks

(***************************************************************************)
(* C12                                                                     *)
(***************************************************************************)
\* C12: the 'end' event fires at most once, the event in front of it is the
\* 'data' event of the end record, and no event comes after it.
C12_EndIsSingleAndTerminal ==
  /\ Cardinality(EndEvents) <= 1
  /\ \A i \in EndEvents :
       /\ i = Len(events)
       /\ i > 1
       /\ IsKind(i - 1, "end")

(***************************************************************************)
(* C13                                                                     *)
(***************************************************************************)
\* the places of the '/' of path, in order
Slashes(path) ==
  SelectSeq([i \in 1..Len(path) |-> i], LAMBDA i : path[i] = SLASH)

\* the proper prefixes s1/, s1/s2/, ... of path, shallowest first
ProperPrefixes(path) ==
  [k \in 1..Len(Slashes(path)) |-> SubSeq(path, 1, Slashes(path)[k])]

\* the directories that writeDir adds when called with each of prefixes in
\* turn, seen being the directory set
RECURSIVE AddedDirs(_, _)
AddedDirs(seen, prefixes) ==
  IF prefixes = <<>> THEN <<>>
  ELSE LET d == NormalizeDir(Head(prefixes)) IN
       IF d \in seen THEN AddedDirs(seen, Tail(prefixes))
       ELSE <<d>> \o AddedDirs(seen \cup {d}, Tail(prefixes))

\* C13: a call write(path, ...) writes the directories of the proper
\* prefixes of path that are not in the directory set, shallowest first, one
\* local header each, then the file of path, once and last; the last
\* segment is not written as a directory, and a path of one segment writes
\* the file only.
C13_WriteStep ==
  call'.op = "write" =>
    LET path  == call'.path
        added == AddedDirs(dirs, ProperPrefixes(path))
        n     == Len(added)
    IN  /\ Len(written') = Len(written) + n + 1
        /\ Len(events') = Len(events) + n + 3
        /\ \A k \in 1..n :
             LET entry == written'[Len(written) + k] IN
             /\ entry.op = "writeDir"
             /\ entry.path = added[k]
             /\ entry.at = Len(events) + k
             /\ events'[entry.at].data = createLocalFileHeader(toBytes(added[k]), FALSE)
        /\ LET entry == written'[Len(written) + n + 1] IN
           /\ entry.op = "writeFile"
           /\ entry.path = path
           /\ entry.at = Len(events) + n + 1
           /\ events'[entry.at].data = createLocalFileHeader(toBytes(path), FALSE)
        /\ dirs' = dirs \cup {added[k] : k \in 1..n}
        /\ Len(Slashes(path)) = 0 => dirs' = dirs

C13_WriteCallsWriteDirOnPrefixes == [][C13_WriteStep]_vars

\* writeDir("a"), write("c", ...) and write("a/b/c", ...): the entries are
\* a/, c, a/b/ and a/b/c
C13_Witness ==
  /\ call = Called("write", <<97, 47, 98, 47, 99>>)
  /\ Len(written) = 4
  /\ [i \in 1..4 |-> written[i].path]
       = << <<97, 47>>, <<99>>, <<97, 47, 98, 47>>, <<97, 47, 98, 47, 99>> >>
  /\ [i \in 1..4 |-> written[i].op]
       = <<"writeDir", "writeFile", "writeDir", "writeFile">>

(***************************************************************************)
(* C14                                                                     *)
(***************************************************************************)
\* the entries written by writeFile with a truthy level
DeflatedFiles ==
  {i \in 1..Len(written) : written[i].op = "writeFile" /\ written[i].deflated}

\* the place in events of the first descriptor after place at
DescriptorAfter(at) ==
  CHOOSE d \in (at + 1)..Len(events) :
    /\ IsKind(d, "descriptor")
    /\ \A e \in (at + 1)..(d - 1) : ~IsKind(e, "descriptor")

\* the sum of the numbers of a sequence
RECURSIVE Sum(_)
Sum(ns) == IF ns = <<>> THEN 0 ELSE Head(ns) + Sum(Tail(ns))

\* C14: for every deflated file, the events between its local header and its
\* descriptor are the chunks of the compressor, one event each and in the
\* order of arrival; the compressedSize of the descriptor and of the central
\* directory record is the sum of their lengths; rawSize and checksum are
\* those of the input bytes; descriptor and record carry the same triple.
C14_DeflatedFileSizes ==
  \A i \in DeflatedFiles :
    LET at         == written[i].at
        bytes      == toBytes(written[i].buffer)
        d          == DescriptorAfter(at)
        lengths    == [k \in 1..(d - at - 1) |-> events[at + k].data.length]
        descriptor == events[d].data
        record     == centralDirHeaders[i]
    IN  /\ IsKind(at, "local")
        /\ \E e \in (at + 1)..Len(events) : IsKind(e, "descriptor")
        /\ \A k \in 1..(d - at - 1) : IsKind(at + k, "deflated")
        /\ lengths \in Chunkings
        /\ descriptor.compressedSize = Sum(lengths)
        /\ descriptor.uncompressedSize = Len(bytes)
        /\ descriptor.crc32 = crc32(bytes)
        /\ record.compressedSize = descriptor.compressedSize
        /\ record.uncompressedSize = descriptor.uncompressedSize
        /\ record.crc32 = descriptor.crc32

\* an empty file deflated to two chunks of 3 bytes in all, and a file "hi"
\* for which the compressor delivered nothing
C14_Witness ==
  \E i, j \in DeflatedFiles :
    /\ written[i].buffer = <<>>
    /\ centralDirHeaders[i].compressedSize = 3
    /\ centralDirHeaders[i].uncompressedSize = 0
    /\ centralDirHeaders[i].crc32 = ZeroCrc
    /\ DescriptorAfter(written[i].at) = written[i].at + 3
    /\ written[j].buffer = <<104, 105>>
    /\ centralDirHeaders[j].compressedSize = 0
    /\ centralDirHeaders[j].uncompressedSize = 2

(***************************************************************************)
(* C15                                                                     *)
(***************************************************************************)
\* C15: a writeDir call on a path that is not in the directory set fires one
\* event, the local header of 30 bytes and the bytes of the name, and no
\* descriptor; it appends one central directory record, of rawSize,
\* compressedSize and checksum 0, and moves the offset by the length of the
\* header.
C15_WriteDirStep ==
  (call'.op = "writeDir" /\ NormalizeDir(call'.path) \notin dirs) =>
    LET name == toBytes(NormalizeDir(call'.path))
        n    == Len(events')
        m    == Len(centralDirHeaders')
    IN  /\ n = Len(events) + 1
        /\ SubSeq(events', 1, n - 1) = events
        /\ events'[n].name = "data"
        /\ events'[n].data.kind = "local"
        /\ events'[n].data.fileName = name
        /\ events'[n].data.length = 30 + Len(name)
        /\ m = Len(centralDirHeaders) + 1
        /\ SubSeq(centralDirHeaders', 1, m - 1) = centralDirHeaders
        /\ centralDirHeaders'[m].fileName = name
        /\ centralDirHeaders'[m].uncompressedSize = 0
        /\ centralDirHeaders'[m].compressedSize = 0
        /\ centralDirHeaders'[m].crc32 = ZeroCrc
        /\ offset' = offset + 30 + Len(name)

C15_NewDirectoryEmitsOneHeader == [][C15_WriteDirStep]_vars

\* writeDir("a") and then writeDir of e-acute/b: headers of 32 and 35 bytes
C15_Witness ==
  /\ call = Called("writeDir", <<233, 47, 98>>)
  /\ Len(events) = 2
  /\ events[2].data.length = 35
  /\ Len(centralDirHeaders) = 2
  /\ offset = 32 + 35

(***************************************************************************)
(* C16                                                                     *)
(***************************************************************************)
\* C16: for every entry, the compression method of its local header is that
\* of its central directory record: 8 for a file written with a truthy
\* level, 0 for any other file and for a directory.
C16_MethodsAgree ==
  \A i \in 1..Len(written) :
    LET header == events[written[i].at].data
        record == centralDirHeaders[i]
    IN  /\ header.kind = "local"
        /\ header.method = record.method
        /\ record.method \in {0, 8}
        /\ record.method = 8 <=> (written[i].op = "writeFile" /\ written[i].deflated)

\* a directory, a deflated file and a stored file
C16_Witness ==
  /\ Len(written) = 3
  /\ written[1].op = "writeDir"
  /\ centralDirHeaders[1].method = 0
  /\ written[2].op = "writeFile"
  /\ written[2].deflated
  /\ events[written[2].at].data.method = 8
  /\ written[3].op = "writeFile"
  /\ ~written[3].deflated
  /\ events[written[3].at].data.method = 0

(***************************************************************************)
(* C17                                                                     *)
(***************************************************************************)
\* C17: when the compressor or crc32 throws in writeFile, the call throws;
\* the local header and the content emitted before the exception stay
\* emitted, no descriptor is emitted and no central directory record is
\* appended, and the offset, the directory set and the pending list are
\* those of before the call.
C17_ThrowStep ==
  call'.threw =>
    /\ call'.op = "writeFile"
    /\ Len(events') > Len(events)
    /\ SubSeq(events', 1, Len(events)) = events
    /\ events'[Len(events) + 1].name = "data"
    /\ events'[Len(events) + 1].data.kind = "local"
    /\ events'[Len(events) + 1].data.fileName = toBytes(call'.path)
    /\ \A i \in (Len(events) + 2)..Len(events') :
         /\ events'[i].name = "data"
         /\ events'[i].data.kind \in {"content", "deflated"}
    /\ offset' = offset
    /\ dirs' = dirs
    /\ centralDirHeaders' = centralDirHeaders
    /\ elided' = elided

C17_FailureLeavesStateAlone == [][C17_ThrowStep]_vars

\* after writeDir("a"), a writeFile in which the compressor threw after its
\* first chunk: two more events, and the offset still that of the directory
C17_Witness ==
  /\ call.threw
  /\ Len(events) = 3
  /\ events[1].data.fileName = <<97, 47>>
  /\ events[2].data.kind = "local"
  /\ events[3].data.kind = "deflated"
  /\ offset = 32
  /\ Len(centralDirHeaders) = 1

(***************************************************************************)
(* C18                                                                     *)
(***************************************************************************)
\* the last n events
LastEvents(n) == SubSeq(events, Len(events) - n + 1, Len(events))

\* C18: writeEnd leaves the offset, the directory set and the pending list
\* as they are, and a writeEnd that follows a writeEnd fires again the
\* events of the first: the same central directory records, the same end
\* record and 'end'.
C18_WriteEndStep ==
  call'.op = "writeEnd" =>
    /\ offset' = offset
    /\ dirs' = dirs
    /\ centralDirHeaders' = centralDirHeaders
    /\ elided' = elided
    /\ call.op = "writeEnd" =>
         events' = events \o LastEvents(Len(centralDirHeaders) + 2)

C18_WriteEndKeepsState == [][C18_WriteEndStep]_vars

\* a write of two entries and two calls of writeEnd: twice the two records,
\* the end record and 'end'
C18_Witness ==
  /\ call.op = "writeEnd"
  /\ Len(centralDirHeaders) = 2
  /\ Cardinality(EndEvents) = 2
  /\ LastEvents(4) = SubSeq(events, Len(events) - 7, Len(events) - 4)
  /\ IsKind(Len(events) - 3, "central")
  /\ IsKind(Len(events) - 1, "end")

(***************************************************************************)
(* C19                                                                     *)
(***************************************************************************)
\* the entries that writeFile wrote, called by the caller or by write
FileEntries == {i \in 1..Len(written) : written[i].op = "writeFile"}

\* C19, in every state: the pending list holds one record for each writeFile
\* that ran and one for each path of the directory set.
C19_ListLength ==
  Len(centralDirHeaders) = Cardinality(FileEntries) + Cardinality(dirs)

\* C19, in every step: the directory set and the pending list only grow, and
\* a call of writeFile or write adds one record more than it adds
\* directories, any other call as many as it adds directories.
C19_GrowStep ==
  /\ dirs \subseteq dirs'
  /\ IsPrefix(centralDirHeaders, centralDirHeaders')
  /\ (Len(centralDirHeaders') - Len(centralDirHeaders))
       - (Cardinality(dirs') - Cardinality(dirs))
     = IF call'.op \in {"writeFile", "write"} THEN 1 ELSE 0

C19_ListCountsFilesAndDirectories == []C19_ListLength /\ [][C19_GrowStep]_vars

\* write and then writeFile of the same path e-acute/b/c: two directories
\* and the file twice
C19_Witness ==
  /\ Cardinality(dirs) = 2
  /\ Len(centralDirHeaders) = 4
  /\ written[3].op = "writeFile"
  /\ written[4].op = "writeFile"
  /\ written[3].path = written[4].path

(***************************************************************************)
(* C20                                                                     *)
(***************************************************************************)
\* the bytes emitted for the i-th entry, by its kind: the local header, and
\* for a file the content and the descriptor
EntryLength(i) ==
  30 + Len(centralDirHeaders[i].fileName)
     + (IF i \in FileEntries THEN centralDirHeaders[i].compressedSize + 16 ELSE 0)

\* C20: in the pending list the first local offset is 0 and each next one
\* is the one before plus the bytes emitted for the entry before, so the
\* offsets increase strictly.
C20_OffsetsAreConsecutive ==
  /\ centralDirHeaders # <<>> => centralDirHeaders[1].fileOffset = 0
  /\ \A i \in 1..(Len(centralDirHeaders) - 1) :
       /\ centralDirHeaders[i + 1].fileOffset
            = centralDirHeaders[i].fileOffset + EntryLength(i)
       /\ centralDirHeaders[i + 1].fileOffset > centralDirHeaders[i].fileOffset

\* a directory a/, a deflated file of three compressed bytes and a third
\* entry: offsets 0, 32 and 32 + 37 + 3 + 16
C20_Witness ==
  /\ Len(centralDirHeaders) = 3
  /\ written[1].op = "writeDir"
  /\ centralDirHeaders[1].fileName = <<97, 47>>
  /\ centralDirHeaders[2].fileName = <<97, 47, 98, 46, 116, 120, 116>>
  /\ centralDirHeaders[2].compressedSize = 3
  /\ centralDirHeaders[2].fileOffset = 32
  /\ centralDirHeaders[3].fileOffset = 88

====
